---- MODULE Spec2Model ----
(***************************************************************************)
(* Model of craft_parts/overlays/overlay_manager.py: the OverlayManager    *)
(* (layer stack composition, mount/unmount, package operations run in a    *)
(* chroot) and the two context managers LayerMount and PackageCacheMount.  *)
(*                                                                         *)
(* A method of the manager is an operator from a "world" record to the     *)
(* world after the call; the record carries the manager's fields, the      *)
(* mounts in effect on the mount point, the resolver file of every layer   *)
(* directory, the exception the call left with and the calls it made to    *)
(* its collaborators.  An action of the model is one call made by the      *)
(* manager's user.  The outcomes of the collaborators (OverlayFS, pychroot,*)
(* packages.Repository, the filesystem) are inputs of the actions.         *)
(***************************************************************************)
EXTENDS Integers, Sequences, FiniteSets, TLC

VARIABLES part_list, layer_dirs, base_layer_dir, overlay_fs,
          mounts, files, getpid, dead, sess, last

vars == <<part_list, layer_dirs, base_layer_dir, overlay_fs,
          mounts, files, getpid, dead, sess, last>>

\* ------------------------------------------------------------------ bounds
NumParts == 2
MaxMounts == 2

\* ------------------------------------------------------------ directories
Parts == 1..NumParts
NoPart == 0
None == <<"None", 0>>
BaseDir == <<"base", 0>>
overlay_mount_dir == <<"overlay", 0>>
overlay_packages_dir == <<"packages", 0>>
overlay_work_dir == <<"work", 0>>
part_layer_dir(p) == <<"layer", p>>

LayerDirs == {part_layer_dir(p) : p \in Parts}
UpperDirs == LayerDirs \cup {overlay_packages_dir}
AllDirs == UpperDirs \cup {BaseDir}

OwnerPid == 1
ChildPid == 2

\* ---------------------------------------------------------------- helpers
Range(s) == {s[i] : i \in 1..Len(s)}

\* list.index: the position of the first element equal to x
Index(s, x) == CHOOSE i \in 1..Len(s) : s[i] = x /\ \A j \in 1..(i-1) : s[j] # x

\* list.reverse
Reverse(s) == [i \in 1..Len(s) |-> s[Len(s) + 1 - i]]

\* the part lists a project can have: the parts of the project, in any order
PartLists == UNION {{s \in [1..n -> Parts] : \A i, j \in 1..n : s[i] = s[j] => i = j}
                    : n \in 0..NumParts}

Outcomes == {"ok", "OverlayError", "SystemExit"}
FsOutcomes == {"ok", "OSError", "SystemExit"}
ChrootOutcomes == {"ok", "ChrootError", "SystemExit"}
RepoOutcomes == {"ok", "PackageError", "SystemExit"}

\* the outcomes of a call made in the chroot: of entering the chroot, of the
\* repository call made once it is entered, and whether the process that goes
\* on after a suppressed SystemExit is the child pychroot forked
PkgOutcomes == {o \in [chroot : ChrootOutcomes, repo : RepoOutcomes, leak : BOOLEAN] :
                  /\ o.chroot # "ok" => o.repo = "ok"
                  /\ o.leak => "SystemExit" \in {o.chroot, o.repo}}

\* the outcomes of shutil.rmtree("/var/cache", ignore_errors=True): it removes
\* the directory, or fails to and says nothing
PurgeOutcomes == {"ok", "OSError"}

\* the outcomes of __enter__: of the mount and, once mounted, of the unlink
EnterOutcomes == {o \in [mount : Outcomes, unlink : FsOutcomes] :
                    o.mount # "ok" => o.unlink = "ok"}

\* ------------------------------------------------------------------ world
World == [part_list |-> part_list, layer_dirs |-> layer_dirs,
          overlay_fs |-> overlay_fs, mounts |-> mounts, files |-> files,
          dirs |-> FALSE, pid |-> getpid, dead |-> FALSE,
          exc |-> "none", raised |-> "none", calls |-> <<>>]

\* raise e: exc is the exception under way, raised the one that was raised
Raise(w, e) == [w EXCEPT !.exc = e, !.raised = e]
Call(w, name, arg) == [w EXCEPT !.calls = Append(@, [call |-> name, fs |-> arg])]

\* OverlayFS(lower_dirs=..., upper_dir=..., work_dir=...)
OverlayFS(lowers, upper, work) ==
    [lower_dirs |-> lowers, upper_dir |-> upper, work_dir |-> work]

\* OverlayFS.mount(mountpoint): the union-mount primitive, atomic, failing loudly
OverlayFS_mount(w, fs, o) ==
    LET w1 == Call(w, "OverlayFS.mount", <<fs>>)
    IN  IF o = "ok" THEN [w1 EXCEPT !.mounts = Append(@, fs)] ELSE Raise(w1, o)

\* OverlayFS.unmount(): tears down the topmost mount of the mount point
OverlayFS_unmount(w, fs, o) ==
    LET w1 == Call(w, "OverlayFS.unmount", <<fs>>)
    IN  IF o # "ok" THEN Raise(w1, o)
        ELSE IF w1.mounts = <<>> THEN w1
        ELSE [w1 EXCEPT !.mounts = SubSeq(@, 1, Len(@) - 1)]

\* ---------------------------------------------------------- OverlayManager
\* mount_layer without lowers.reverse()
mount_layer_noreverse(w0, part, pkg_cache, o) ==
    LET w == Call(w0, "mount_layer", <<>>) IN
    IF base_layer_dir = None THEN Raise(w, "RuntimeError")
    ELSE IF part \notin Range(w.part_list) THEN Raise(w, "ValueError")
    ELSE LET lowers0 == <<base_layer_dir>>
             lowers1 == IF pkg_cache THEN Append(lowers0, overlay_packages_dir)
                        ELSE lowers0
             index == Index(w.part_list, part)
             lowers == lowers1 \o SubSeq(w.layer_dirs, 1, index - 1)
             upper == w.layer_dirs[index]
             fs == OverlayFS(lowers, upper, overlay_work_dir)
         IN  OverlayFS_mount([w EXCEPT !.overlay_fs = <<fs>>], fs, o)

\* mount_layer that takes a part it does not find for the last one of the list
mount_layer_lastpart(w0, part, pkg_cache, o) ==
    LET w == Call(w0, "mount_layer", <<>>) IN
    IF base_layer_dir = None THEN Raise(w, "RuntimeError")
    ELSE IF w.part_list = <<>> THEN Raise(w, "ValueError")
    ELSE LET lowers0 == <<base_layer_dir>>
             lowers1 == IF pkg_cache THEN Append(lowers0, overlay_packages_dir)
                        ELSE lowers0
             index == IF part \in Range(w.part_list) THEN Index(w.part_list, part)
                      ELSE Len(w.part_list)
             lowers2 == lowers1 \o SubSeq(w.layer_dirs, 1, index - 1)
             upper == w.layer_dirs[index]
             lowers == Reverse(lowers2)
             fs == OverlayFS(lowers, upper, overlay_work_dir)
         IN  OverlayFS_mount([w EXCEPT !.overlay_fs = <<fs>>], fs, o)

\* mount_layer that reverses _layer_dirs itself instead of a copy
mount_layer_inplace(w0, part, pkg_cache, o) ==
    LET w == Call(w0, "mount_layer", <<>>) IN
    IF base_layer_dir = None THEN Raise(w, "RuntimeError")
    ELSE IF part \notin Range(w.part_list) THEN Raise(w, "ValueError")
    ELSE LET lowers0 == <<base_layer_dir>>
             lowers1 == IF pkg_cache THEN Append(lowers0, overlay_packages_dir)
                        ELSE lowers0
             index == Index(w.part_list, part)
             lowers2 == lowers1 \o SubSeq(w.layer_dirs, 1, index - 1)
             upper == w.layer_dirs[index]
             lowers == Reverse(lowers2)
             fs == OverlayFS(lowers, upper, overlay_work_dir)
         IN  OverlayFS_mount([w EXCEPT !.overlay_fs = <<fs>>,
                                       !.layer_dirs = Reverse(@)], fs, o)

mount_layer(w0, part, pkg_cache, o) ==
    LET w == Call(w0, "mount_layer", <<>>) IN
    IF base_layer_dir = None THEN Raise(w, "RuntimeError")
    ELSE IF part \notin Range(w.part_list) THEN Raise(w, "ValueError")
    ELSE LET lowers0 == <<base_layer_dir>>
             lowers1 == IF pkg_cache THEN Append(lowers0, overlay_packages_dir)
                        ELSE lowers0
             index == Index(w.part_list, part)
             lowers2 == lowers1 \o SubSeq(w.layer_dirs, 1, index - 1)
             upper == w.layer_dirs[index]
             lowers == Reverse(lowers2)
             fs == OverlayFS(lowers, upper, overlay_work_dir)
         IN  OverlayFS_mount([w EXCEPT !.overlay_fs = <<fs>>], fs, o)

\* mount_pkg_cache without the check of the base layer
mount_pkg_cache_noguard(w0, o) ==
    LET w == Call(w0, "mount_pkg_cache", <<>>)
        fs == OverlayFS(<<base_layer_dir>>, overlay_packages_dir, overlay_work_dir)
    IN  OverlayFS_mount([w EXCEPT !.overlay_fs = <<fs>>], fs, o)

\* mount_pkg_cache that mounts the stack without recording it
mount_pkg_cache_norecord(w0, o) ==
    LET w == Call(w0, "mount_pkg_cache", <<>>) IN
    IF base_layer_dir = None THEN Raise(w, "RuntimeError")
    ELSE LET fs == OverlayFS(<<base_layer_dir>>, overlay_packages_dir, overlay_work_dir)
         IN  OverlayFS_mount(w, fs, o)

\* mount_pkg_cache with the lower and the upper directory swapped
mount_pkg_cache_swapped(w0, o) ==
    LET w == Call(w0, "mount_pkg_cache", <<>>) IN
    IF base_layer_dir = None THEN Raise(w, "RuntimeError")
    ELSE LET fs == OverlayFS(<<overlay_packages_dir>>, base_layer_dir, overlay_work_dir)
         IN  OverlayFS_mount([w EXCEPT !.overlay_fs = <<fs>>], fs, o)

mount_pkg_cache(w0, o) ==
    LET w == Call(w0, "mount_pkg_cache", <<>>) IN
    IF base_layer_dir = None THEN Raise(w, "RuntimeError")
    ELSE LET fs == OverlayFS(<<base_layer_dir>>, overlay_packages_dir, overlay_work_dir)
         IN  OverlayFS_mount([w EXCEPT !.overlay_fs = <<fs>>], fs, o)

\* unmount that leaves _overlay_fs set
unmount_noclear(w0, o) ==
    LET w == Call(w0, "unmount", <<>>)
    IN  IF w.overlay_fs = <<>> THEN Raise(w, "RuntimeError")
        ELSE OverlayFS_unmount(w, w.overlay_fs[1], o)

unmount(w0, o) ==
    LET w == Call(w0, "unmount", <<>>)
    IN  IF w.overlay_fs = <<>> THEN Raise(w, "RuntimeError")
        ELSE LET w1 == OverlayFS_unmount(w, w.overlay_fs[1], o)
             IN  IF w1.exc # "none" THEN w1 ELSE [w1 EXCEPT !.overlay_fs = <<>>]

mkdirs(w) == [Call(w, "mkdirs", <<>>) EXCEPT !.dirs = TRUE]

\* contextlib.suppress(SystemExit); leak: the process that goes on is the
\* child forked by pychroot
suppress(w, leak) ==
    IF w.exc = "SystemExit"
    THEN [w EXCEPT !.exc = "none", !.pid = IF leak THEN ChildPid ELSE @]
    ELSE w

\* shutil.rmtree(path, ignore_errors=True): an error of the removal is kept
\* inside the call
rmtree(w, opurge) ==
    IF opurge = "ok" THEN Call(w, "rmtree", <<>>)
    ELSE Call(Call(w, "rmtree", <<>>), "rmtree.ignored_error", <<>>)

\* with contextlib.suppress(SystemExit), pychroot.Chroot(mount_dir): repo(...);
\* purge: the outcome of the rmtree that follows repo(...), "none" without one
in_chroot(w, repo, purge, oc, orepo, leak) ==
    LET w1 == Call(w, "chroot", <<>>)
    IN  IF oc # "ok" THEN suppress(Raise(w1, oc), leak)
        ELSE LET w2 == Call(w1, repo, <<>>)
             IN  IF orepo # "ok" THEN suppress(Raise(w2, orepo), leak)
                 ELSE IF purge # "none" THEN rmtree(w2, purge) ELSE w2

\* refresh_packages_list that drops the record of the stack when it is done
refresh_packages_list_clear(w, oc, orepo, leak) ==
    IF w.overlay_fs = <<>> THEN Raise(w, "RuntimeError")
    ELSE [in_chroot(w, "refresh_packages_list", "none", oc, orepo, leak)
             EXCEPT !.overlay_fs = <<>>]

refresh_packages_list(w, oc, orepo, leak) ==
    IF w.overlay_fs = <<>> THEN Raise(w, "RuntimeError")
    ELSE in_chroot(w, "refresh_packages_list", "none", oc, orepo, leak)

\* download_packages without the check of _overlay_fs
download_packages_noguard(w, oc, orepo, leak) ==
    in_chroot(w, "download_packages", "none", oc, orepo, leak)

download_packages(w, oc, orepo, leak) ==
    IF w.overlay_fs = <<>> THEN Raise(w, "RuntimeError")
    ELSE in_chroot(w, "download_packages", "none", oc, orepo, leak)

\* install_packages without contextlib.suppress(SystemExit)
install_packages_nosuppress(w, oc, orepo, opurge, leak) ==
    IF w.overlay_fs = <<>> THEN Raise(w, "RuntimeError")
    ELSE LET w1 == Call(w, "chroot", <<>>)
         IN  IF oc # "ok" THEN Raise(w1, oc)
             ELSE LET w2 == Call(w1, "install_packages", <<>>)
                  IN  IF orepo # "ok" THEN Raise(w2, orepo)
                      ELSE rmtree(w2, opurge)

\* install_packages that purges in a finally clause: also when the install raised
install_packages_purgealways(w, oc, orepo, opurge, leak) ==
    IF w.overlay_fs = <<>> THEN Raise(w, "RuntimeError")
    ELSE LET w1 == Call(w, "chroot", <<>>)
         IN  IF oc # "ok" THEN suppress(Raise(w1, oc), leak)
             ELSE LET w2 == Call(w1, "install_packages", <<>>)
                  IN  IF orepo # "ok" THEN suppress(Raise(rmtree(w2, opurge), orepo), leak)
                      ELSE rmtree(w2, opurge)

install_packages(w, oc, orepo, opurge, leak) ==
    IF w.overlay_fs = <<>> THEN Raise(w, "RuntimeError")
    ELSE in_chroot(w, "install_packages", opurge, oc, orepo, leak)

\* the resolver file seen through a stack of directories, topmost first
RECURSIVE Lookup(_, _)
Lookup(f, ds) ==
    IF ds = <<>> THEN "absent"
    ELSE IF f[ds[1]] = "absent" THEN Lookup(f, Tail(ds))
    ELSE f[ds[1]]

\* overlay_mount_dir / "etc" / "resolv.conf" in the merged view
resolv(w) ==
    IF w.mounts = <<>> THEN "absent"
    ELSE LET fs == w.mounts[Len(w.mounts)]
         IN  Lookup(w.files, <<fs.upper_dir>> \o fs.lower_dirs)

\* fix_resolv_conf that replaces the resolver file whenever there is one
fix_resolv_conf_always(w0, ounlink) ==
    LET w == Call(w0, "fix_resolv_conf", <<>>) IN
    IF resolv(w) = "absent" THEN w
    ELSE LET upper == w.mounts[Len(w.mounts)].upper_dir
             w1 == Call(w, "unlink", <<>>)
         IN  IF ounlink # "ok" THEN Raise(w1, ounlink)
             ELSE Call([w1 EXCEPT !.files[upper] = "empty"], "touch", <<>>)

\* unlink() of the link, which can fail, then touch() of the path just freed:
\* both land in the upper directory of the mount
fix_resolv_conf(w0, ounlink) ==
    LET w == Call(w0, "fix_resolv_conf", <<>>) IN
    IF resolv(w) # "symlink" THEN w
    ELSE LET upper == w.mounts[Len(w.mounts)].upper_dir
             w1 == Call(w, "unlink", <<>>)
         IN  IF ounlink # "ok" THEN Raise(w1, ounlink)
             ELSE Call([w1 EXCEPT !.files[upper] = "empty"], "touch", <<>>)

\* sys.exit() in a process that is not the one that made the session
sys_exit(w) == [Raise(Call(w, "sys.exit", <<>>), "SystemExit") EXCEPT !.dead = TRUE]

\* ------------------------------------------------------------------- state
NoSess == [kind |-> "none", top_part |-> NoPart, pkg_cache |-> FALSE, pid |-> 0,
           dirs |-> FALSE, pc |-> "none", body_exc |-> "none", result |-> "none",
           unmounts |-> 0, direct |-> FALSE]

Init ==
    /\ part_list \in PartLists
    /\ layer_dirs = [i \in 1..Len(part_list) |-> part_layer_dir(part_list[i])]
    /\ base_layer_dir \in {None, BaseDir}
    /\ overlay_fs = <<>>
    /\ mounts = <<>>
    /\ files \in {f \in [AllDirs -> {"absent", "symlink", "regular"}] :
                      \A d \in UpperDirs : f[d] = "absent"}
    /\ getpid = OwnerPid
    /\ dead = FALSE
    /\ sess = NoSess
    /\ last = [op |-> "init", part |-> NoPart, pkg_cache |-> FALSE,
               exc |-> "none", raised |-> "none", calls |-> <<>>]

\* the state after a call that took the world to w
Commit(w, op, part, pkg_cache) ==
    /\ part_list' = w.part_list
    /\ layer_dirs' = w.layer_dirs
    /\ overlay_fs' = w.overlay_fs
    /\ mounts' = w.mounts
    /\ files' = w.files
    /\ getpid' = w.pid
    /\ dead' = w.dead
    /\ last' = [op |-> op, part |-> part, pkg_cache |-> pkg_cache, exc |-> w.exc,
                raised |-> w.raised, calls |-> w.calls]
    /\ UNCHANGED base_layer_dir

\* a call made on the manager itself: while a session's body runs, the
\* session sees its mounts and unmounts; a session that has ended is gone
Direct(mounting) ==
    sess' = IF sess.pc \in {"done", "enter_failed"} THEN NoSess
            ELSE IF mounting /\ sess.pc = "body" THEN [sess EXCEPT !.direct = TRUE]
            ELSE sess

CanCall == ~dead /\ sess.pc # "raised"

\* ----------------------------------------------- calls on the OverlayManager
MountLayer ==
    /\ CanCall /\ Len(mounts) < MaxMounts
    /\ \E part \in Parts, pkg_cache \in BOOLEAN, o \in Outcomes :
          Commit(mount_layer(World, part, pkg_cache, o), "mount_layer", part, pkg_cache)
    /\ Direct(TRUE)

MountPkgCache ==
    /\ CanCall /\ Len(mounts) < MaxMounts
    /\ \E o \in Outcomes :
          Commit(mount_pkg_cache(World, o), "mount_pkg_cache", NoPart, FALSE)
    /\ Direct(TRUE)

Unmount ==
    /\ CanCall
    /\ \E o \in Outcomes : Commit(unmount(World, o), "unmount", NoPart, FALSE)
    /\ Direct(TRUE)

Mkdirs ==
    /\ CanCall
    /\ Commit(mkdirs(World), "mkdirs", NoPart, FALSE)
    /\ Direct(FALSE)

RefreshPackagesList ==
    /\ CanCall
    /\ \E o \in PkgOutcomes :
          Commit(refresh_packages_list(World, o.chroot, o.repo, o.leak),
                 "refresh_packages_list", NoPart, FALSE)
    /\ Direct(FALSE)

DownloadPackages ==
    /\ CanCall
    /\ \E o \in PkgOutcomes :
          Commit(download_packages(World, o.chroot, o.repo, o.leak),
                 "download_packages", NoPart, FALSE)
    /\ Direct(FALSE)

InstallPackages ==
    /\ CanCall
    /\ \E o \in PkgOutcomes, opurge \in PurgeOutcomes :
          Commit(install_packages(World, o.chroot, o.repo, opurge, o.leak),
                 "install_packages", NoPart, FALSE)
    /\ Direct(FALSE)

FixResolvConf ==
    /\ CanCall
    /\ \E ounlink \in FsOutcomes :
          Commit(fix_resolv_conf(World, ounlink), "fix_resolv_conf", NoPart, FALSE)
    /\ Direct(FALSE)

\* --------------------------------------------------------------- LayerMount
CanMake == ~dead /\ sess.pc \in {"none", "done", "enter_failed"}

NewSess(w, kind, top_part, pkg_cache) ==
    [kind |-> kind, top_part |-> top_part, pkg_cache |-> pkg_cache, pid |-> w.pid,
     dirs |-> w.dirs, pc |-> "created", body_exc |-> "none", result |-> "none",
     unmounts |-> 0, direct |-> FALSE]

\* the session after __enter__ left the world as w
Entered(w) ==
    [sess EXCEPT !.pc = IF w.exc = "none" THEN "body" ELSE "enter_failed",
                 !.result = w.exc]

\* the number of calls of name in a sequence of calls
Count(calls, name) == Cardinality({i \in 1..Len(calls) : calls[i].call = name})

\* __exit__ that returns True: the exception of the body is swallowed
Exited_swallow(w) ==
    [sess EXCEPT !.pc = IF w.dead THEN "killed" ELSE "done",
                 !.unmounts = @ + Count(w.calls, "unmount"),
                 !.result = w.exc]

\* the session after __exit__ left the world as w: the with statement ends
\* with the exception of __exit__, else (__exit__ returns False) with the one
\* of the body
Exited(w) ==
    [sess EXCEPT !.pc = IF w.dead THEN "killed" ELSE "done",
                 !.unmounts = @ + Count(w.calls, "unmount"),
                 !.result = IF w.exc # "none" THEN w.exc ELSE sess.body_exc]

LayerMount_init ==
    /\ CanMake
    /\ \E top_part \in Parts, pkg_cache \in BOOLEAN :
          LET w == mkdirs(World)
          IN  /\ Commit(w, "LayerMount.__init__", top_part, pkg_cache)
              /\ sess' = NewSess(w, "LayerMount", top_part, pkg_cache)

\* __enter__ that applies the resolver fix-up before it mounts
LayerMount_enter_fixfirst ==
    /\ ~dead /\ sess.kind = "LayerMount" /\ sess.pc = "created"
    /\ Len(mounts) < MaxMounts
    /\ \E o \in EnterOutcomes :
          LET w1 == fix_resolv_conf(World, o.unlink)
              w2 == IF w1.exc = "none"
                    THEN mount_layer(w1, sess.top_part, sess.pkg_cache, o.mount) ELSE w1
          IN  /\ Commit(w2, "LayerMount.__enter__", sess.top_part, sess.pkg_cache)
              /\ sess' = Entered(w2)

LayerMount_enter ==
    /\ ~dead /\ sess.kind = "LayerMount" /\ sess.pc = "created"
    /\ Len(mounts) < MaxMounts
    /\ \E o \in EnterOutcomes :
          LET w1 == mount_layer(World, sess.top_part, sess.pkg_cache, o.mount)
              w2 == IF w1.exc = "none" THEN fix_resolv_conf(w1, o.unlink) ELSE w1
          IN  /\ Commit(w2, "LayerMount.__enter__", sess.top_part, sess.pkg_cache)
              /\ sess' = Entered(w2)

\* __exit__ that does not unmount when the body raised
LayerMount_exit_skip ==
    /\ ~dead /\ sess.kind = "LayerMount" /\ sess.pc \in {"body", "raised"}
    /\ \E o \in Outcomes :
          LET w == IF getpid # sess.pid THEN sys_exit(World)
                   ELSE IF sess.pc = "raised" THEN World
                   ELSE unmount(World, o)
          IN  /\ Commit(w, "LayerMount.__exit__", NoPart, FALSE)
              /\ sess' = Exited(w)

LayerMount_exit ==
    /\ ~dead /\ sess.kind = "LayerMount" /\ sess.pc \in {"body", "raised"}
    /\ \E o \in Outcomes :
          LET w == IF getpid # sess.pid THEN sys_exit(World) ELSE unmount(World, o)
          IN  /\ Commit(w, "LayerMount.__exit__", NoPart, FALSE)
              /\ sess' = Exited(w)

LayerMount_install_packages ==
    /\ ~dead /\ sess.kind = "LayerMount" /\ sess.pc = "body"
    /\ \E o \in PkgOutcomes, opurge \in PurgeOutcomes :
          Commit(install_packages(World, o.chroot, o.repo, opurge, o.leak),
                 "LayerMount.install_packages", NoPart, FALSE)
    /\ UNCHANGED sess

\* -------------------------------------------------------- PackageCacheMount
PackageCacheMount_init ==
    /\ CanMake
    /\ LET w == mkdirs(World)
       IN  /\ Commit(w, "PackageCacheMount.__init__", NoPart, FALSE)
           /\ sess' = NewSess(w, "PackageCacheMount", NoPart, FALSE)

PackageCacheMount_enter ==
    /\ ~dead /\ sess.kind = "PackageCacheMount" /\ sess.pc = "created"
    /\ Len(mounts) < MaxMounts
    /\ \E o \in EnterOutcomes :
          LET w1 == mount_pkg_cache(World, o.mount)
              w2 == IF w1.exc = "none" THEN fix_resolv_conf(w1, o.unlink) ELSE w1
          IN  /\ Commit(w2, "PackageCacheMount.__enter__", NoPart, FALSE)
              /\ sess' = Entered(w2)

\* __exit__ without the check of the process id
PackageCacheMount_exit_nocheck ==
    /\ ~dead /\ sess.kind = "PackageCacheMount" /\ sess.pc \in {"body", "raised"}
    /\ \E o \in Outcomes :
          LET w == unmount(World, o)
          IN  /\ Commit(w, "PackageCacheMount.__exit__", NoPart, FALSE)
              /\ sess' = Exited(w)

PackageCacheMount_exit ==
    /\ ~dead /\ sess.kind = "PackageCacheMount" /\ sess.pc \in {"body", "raised"}
    /\ \E o \in Outcomes :
          LET w == IF getpid # sess.pid THEN sys_exit(World) ELSE unmount(World, o)
          IN  /\ Commit(w, "PackageCacheMount.__exit__", NoPart, FALSE)
              /\ sess' = Exited(w)

PackageCacheMount_refresh_packages_list ==
    /\ ~dead /\ sess.kind = "PackageCacheMount" /\ sess.pc = "body"
    /\ \E o \in PkgOutcomes :
          Commit(refresh_packages_list(World, o.chroot, o.repo, o.leak),
                 "PackageCacheMount.refresh_packages_list", NoPart, FALSE)
    /\ UNCHANGED sess

PackageCacheMount_download_packages ==
    /\ ~dead /\ sess.kind = "PackageCacheMount" /\ sess.pc = "body"
    /\ \E o \in PkgOutcomes :
          Commit(download_packages(World, o.chroot, o.repo, o.leak),
                 "PackageCacheMount.download_packages", NoPart, FALSE)
    /\ UNCHANGED sess

\* the body of the with statement raises e: an error of its own, or the one
\* the last call it made left with
BodyRaise ==
    /\ ~dead /\ sess.pc = "body"
    /\ \E e \in {"BodyError"} \cup ({last.exc} \ {"none"}) :
          /\ sess' = [sess EXCEPT !.pc = "raised", !.body_exc = e]
          /\ last' = [op |-> "raise", part |-> NoPart, pkg_cache |-> FALSE, exc |-> e,
                      raised |-> e, calls |-> <<>>]
    /\ UNCHANGED <<part_list, layer_dirs, base_layer_dir, overlay_fs,
                   mounts, files, getpid, dead>>

Next ==
    \/ MountLayer
    \/ MountPkgCache
    \/ Unmount
    \/ Mkdirs
    \/ RefreshPackagesList
    \/ DownloadPackages
    \/ InstallPackages
    \/ FixResolvConf
    \/ LayerMount_init
    \/ LayerMount_enter
    \/ LayerMount_exit
    \/ LayerMount_install_packages
    \/ PackageCacheMount_init
    \/ PackageCacheMount_enter
    \/ PackageCacheMount_exit
    \/ PackageCacheMount_refresh_packages_list
    \/ PackageCacheMount_download_packages
    \/ BodyRaise

Spec == Init /\ [][Next]_vars

\* the calls that compose, mount and unmount layer stacks, on every part list
NextStack == MountLayer \/ MountPkgCache \/ Unmount \/ Mkdirs
SpecStack == Init /\ [][NextStack]_vars

\* a project whose part list holds every part but the first, last part first
OnePartList == [i \in 1..(NumParts - 1) |-> NumParts + 1 - i]
InitOne == Init /\ part_list = OnePartList

\* the calls on the manager that run in the chroot, with the mounts they need
NextPkg ==
    \/ MountLayer
    \/ MountPkgCache
    \/ Unmount
    \/ RefreshPackagesList
    \/ DownloadPackages
    \/ InstallPackages
    \/ FixResolvConf
SpecPkg == InitOne /\ [][NextPkg]_vars

\* the two context managers, and an unmount made behind their back
NextSession ==
    \/ Unmount
    \/ LayerMount_init
    \/ LayerMount_enter
    \/ LayerMount_exit
    \/ LayerMount_install_packages
    \/ PackageCacheMount_init
    \/ PackageCacheMount_enter
    \/ PackageCacheMount_exit
    \/ PackageCacheMount_refresh_packages_list
    \/ PackageCacheMount_download_packages
    \/ BodyRaise
SpecSession == InitOne /\ [][NextSession]_vars

\* ------------------------------------------------------------------ claims
Called(l, name) == \E k \in 1..Len(l.calls) : l.calls[k].call = name
ExitOps == {"LayerMount.__exit__", "PackageCacheMount.__exit__"}
PkgOps == {"refresh_packages_list", "download_packages", "install_packages"}
ManagerFields == <<part_list, layer_dirs, base_layer_dir, overlay_fs>>

\* the lower directories of the stack of the part at position i, as the
\* primitive takes them: the layers of the parts before it, nearest first, then
\* the package cache if enabled, then the base layer
ExpectedLowers(i, cache) ==
    [k \in 1..(i + (IF cache THEN 1 ELSE 0)) |->
        IF k <= i - 1 THEN layer_dirs[i - k]
        ELSE IF cache /\ k = i THEN overlay_packages_dir
        ELSE base_layer_dir]

C2_NoSecondMount ==
    [][Called(last', "OverlayFS.mount") => mounts = <<>>]_vars

\* C3: when __exit__ of a session that was entered has run in the process
\* that made the session, it has called unmount() exactly once, whether the
\* body returned or raised.
C3_UnmountOnce ==
    sess.pc = "done" => (sess.unmounts = 1 /\ Count(last.calls, "unmount") = 1)

C3_Witness ==
    /\ sess.pc = "done" /\ sess.body_exc # "none" /\ sess.unmounts = 1
    /\ last.op = "LayerMount.__exit__"

\* C4: a session that acquired its mount in the owning process ends (after its
\* body, or with an error of __enter__ after the mount, such as a failing
\* resolver fix-up) with the manager unmounted and nothing mounted on the
\* mount point, unless the unmount of the primitive itself failed.
C4_Released ==
    (\/ sess.pc = "done" /\ last.exc \notin Outcomes \ {"ok"}
     \/ sess.pc = "enter_failed" /\ Called(last, "fix_resolv_conf"))
        => (overlay_fs = <<>> /\ mounts = <<>>)

\* C5: when __exit__ runs in a process that is not the one that made the
\* session, the process ends at once: unmount() is not called, and the record
\* of the active stack and the mounts are as they were.
C5_LeakGuard ==
    [][(last'.op \in ExitOps /\ getpid # sess.pid) =>
          /\ dead' /\ sess'.pc = "killed"
          /\ last'.calls = <<[call |-> "sys.exit", fs |-> <<>>]>>
          /\ sess'.unmounts = 0
          /\ UNCHANGED <<ManagerFields, mounts, files>>]_vars

C5_Witness ==
    /\ sess.pc = "killed" /\ dead /\ last.op = "PackageCacheMount.__exit__"
    /\ overlay_fs # <<>> /\ mounts # <<>>

\* C6: unmount() with no active stack fails with RuntimeError, calls nothing
\* and changes nothing; with an active stack it calls the unmount of the
\* primitive for that stack, once, and clears the record when that returns;
\* right after an unmount that succeeded it fails with RuntimeError and calls
\* nothing.
C6_Unmount ==
    [][last'.op = "unmount" =>
          /\ overlay_fs = <<>> =>
                /\ last'.exc = "RuntimeError"
                /\ ~Called(last', "OverlayFS.unmount")
                /\ UNCHANGED <<ManagerFields, mounts, files>>
          /\ overlay_fs # <<>> =>
                /\ last'.calls = <<[call |-> "unmount", fs |-> <<>>],
                                   [call |-> "OverlayFS.unmount", fs |-> overlay_fs]>>
                /\ last'.exc = "none" =>
                      /\ overlay_fs' = <<>>
                      /\ mounts # <<>> => Len(mounts') = Len(mounts) - 1
                /\ last'.exc # "none" => last'.exc # "RuntimeError"
          /\ (last.op = "unmount" /\ last.exc = "none") =>
                (last'.exc = "RuntimeError" /\ ~Called(last', "OverlayFS.unmount"))]_vars

C6_Witness ==
    /\ last.op = "unmount" /\ last.exc = "none" /\ Called(last, "OverlayFS.unmount")
    /\ overlay_fs = <<>> /\ mounts = <<>>

\* C7: with no base layer, mount_layer and mount_pkg_cache fail with
\* RuntimeError without calling the primitive, and no stack is ever recorded
\* or mounted.
C7_NoBase ==
    base_layer_dir = None =>
        /\ overlay_fs = <<>> /\ mounts = <<>>
        /\ last.op \in {"mount_layer", "mount_pkg_cache"} =>
              (last.exc = "RuntimeError" /\ ~Called(last, "OverlayFS.mount"))

C7_Witness ==
    /\ base_layer_dir = None /\ last.op = "mount_pkg_cache"
    /\ last.exc = "RuntimeError" /\ overlay_fs = <<>>

\* C8: refresh_packages_list, download_packages and install_packages called
\* with no active stack fail with RuntimeError, and neither the chroot is
\* entered nor the repository called.
C8_NotMounted ==
    [][(last'.op \in PkgOps /\ overlay_fs = <<>>) =>
          (last'.exc = "RuntimeError" /\ last'.calls = <<>>)]_vars

\* download_packages after the stack was unmounted
C8_Witness ==
    /\ last.op = "download_packages" /\ last.exc = "RuntimeError"
    /\ overlay_fs = <<>> /\ base_layer_dir # None

\* C9: a SystemExit raised in the chroot during refresh_packages_list,
\* download_packages or install_packages does not leave the call, which
\* returns; one raised during a mount, an unmount or the resolver fix-up does
\* leave the call.
C9_Suppress ==
    /\ (last.op \in PkgOps /\ last.raised = "SystemExit") =>
          (last.exc = "none" /\ Called(last, "chroot"))
    /\ (last.op \in {"mount_layer", "mount_pkg_cache", "unmount", "fix_resolv_conf"}
           /\ last.raised = "SystemExit") => last.exc = "SystemExit"

C9_Witness ==
    /\ last.op = "install_packages" /\ last.raised = "SystemExit" /\ last.exc = "none"
    /\ Called(last, "install_packages")

\* C10 as stated: the error raised in the body of a session is the one that
\* reaches the caller of the session.
C10_BodyErrorReaches ==
    (sess.pc = "done" /\ sess.body_exc # "none") => sess.result = sess.body_exc

\* C10: __exit__ run in the owning process attempts the unmount once, without
\* retrying the primitive; when the unmount fails its failure is what reaches
\* the caller, and when it succeeds the error of the body, if any, is what
\* reaches the caller.
C10_Propagates ==
    sess.pc = "done" =>
        /\ sess.unmounts = 1
        /\ Count(last.calls, "OverlayFS.unmount") <= 1
        /\ last.exc # "none" => sess.result = last.exc
        /\ last.exc = "none" => sess.result = sess.body_exc

\* a PackageError of install_packages raised out of the body reaches the caller
C10_Witness ==
    /\ sess.pc = "done" /\ sess.body_exc = "PackageError"
    /\ sess.result = "PackageError" /\ last.exc = "none"

\* C11: the resolver fix-up of a session never writes to the layer directory
\* of a part: no part layer ever holds a resolver file made by the fix-up.
C11_PartLayersUntouched ==
    \A d \in LayerDirs : files[d] = "absent"

\* the resolver file of the merged view in the state after a step
resolv_after == resolv([mounts |-> mounts', files |-> files'])

\* C12: fix_resolv_conf that returns turns a resolver file that is a symbolic
\* link into an empty regular file, and leaves a regular file as it is and an
\* absent one absent; after it the file is no link, so a second call changes
\* nothing.
C12_FixMapping ==
    [][(last'.op = "fix_resolv_conf" /\ last'.exc = "none") =>
          /\ resolv(World) = "symlink" => resolv_after = "empty"
          /\ resolv(World) # "symlink" =>
                (resolv_after = resolv(World) /\ files' = files
                   /\ ~Called(last', "unlink") /\ ~Called(last', "touch"))
          /\ resolv_after # "symlink"]_vars

C12_Witness ==
    /\ last.op = "fix_resolv_conf" /\ last.exc = "none" /\ Called(last, "touch")
    /\ resolv(World) = "empty" /\ files[BaseDir] = "symlink"

EnterOps == {"LayerMount.__enter__", "PackageCacheMount.__enter__"}

\* C13: a session has its directories made when it is created, so before
\* __enter__ can run; __enter__ first calls its mount operation (mount_layer
\* for the part of a LayerMount, mount_pkg_cache for a PackageCacheMount); the
\* resolver fix-up is called only right after the mount of the primitive
\* succeeded, and always before the body is reached.
C13_EntryOrder ==
    /\ sess.kind # "none" => sess.dirs
    /\ last.op \in EnterOps =>
          /\ sess.pc \in {"body", "enter_failed"}
          /\ last.calls[1].call = (IF last.op = "LayerMount.__enter__"
                                   THEN "mount_layer" ELSE "mount_pkg_cache")
          /\ last.op = "LayerMount.__enter__" =>
                (last.part = sess.top_part /\ last.pkg_cache = sess.pkg_cache)
          /\ \A k \in 1..Len(last.calls) :
                last.calls[k].call = "fix_resolv_conf" =>
                    /\ k = 3
                    /\ last.calls[2].call = "OverlayFS.mount"
                    /\ mounts # <<>> /\ mounts[Len(mounts)] = last.calls[2].fs[1]
          /\ sess.pc = "body" => (Called(last, "fix_resolv_conf") /\ last.exc = "none")

C13_Witness ==
    /\ last.op = "LayerMount.__enter__" /\ sess.pc = "body" /\ sess.dirs
    /\ Called(last, "touch") /\ last.calls[3].call = "fix_resolv_conf"

\* the stack of the package cache
PkgCacheStack ==
    [lower_dirs |-> <<BaseDir>>, upper_dir |-> overlay_packages_dir,
     work_dir |-> overlay_work_dir]

C15_Purge ==
    last.op = "install_packages" =>
        /\ Called(last, "rmtree") =>
              /\ last.raised = "none"
              /\ Len(last.calls) >= 3
              /\ last.calls[1].call = "chroot"
              /\ last.calls[2].call = "install_packages"
              /\ last.calls[3].call = "rmtree"
              /\ Count(last.calls, "rmtree") = 1
        /\ last.raised # "none" => ~Called(last, "rmtree")
        /\ Called(last, "rmtree.ignored_error") =>
              (last.exc = "none" /\ last.raised = "none")

\* an install that returned, followed by a purge that failed
C15_Witness ==
    /\ last.op = "install_packages" /\ Called(last, "rmtree.ignored_error")
    /\ last.exc = "none"

\* the stack mount_layer builds for the part at position i of the part list
FreshStack(i, cache) ==
    [lower_dirs |->
        [k \in 1..(i + (IF cache THEN 1 ELSE 0)) |->
            IF k <= i - 1 THEN part_layer_dir(part_list[i - k])
            ELSE IF cache /\ k = i THEN overlay_packages_dir
            ELSE base_layer_dir],
     upper_dir |-> part_layer_dir(part_list[i]),
     work_dir |-> overlay_work_dir]

\* C16: no call on the manager changes the part list or the layer
\* directories, and the stack mount_layer hands to the primitive is the one
\* the part list gives for the part, whatever was mounted before.
C16_PartsFixed ==
    [][/\ part_list' = part_list
       /\ layer_dirs' = layer_dirs
       /\ (last'.op = "mount_layer" /\ Called(last', "OverlayFS.mount")) =>
             \E i \in 1..Len(part_list) :
                 /\ part_list[i] = last'.part
                 /\ overlay_fs' = <<FreshStack(i, last'.pkg_cache)>>
                 /\ last'.calls[2].fs = overlay_fs']_vars

\* a second stack, mounted after another one, part list and layers as made
C16_Witness ==
    /\ last.op = "mount_layer" /\ last.exc = "none" /\ Len(mounts) = 2
    /\ mounts[1] # mounts[2]
    /\ part_list = <<2, 1>> /\ layer_dirs = <<part_layer_dir(2), part_layer_dir(1)>>

\* C17: the manager has a stack recorded exactly when a mount is in effect on
\* the mount point; a mount whose primitive fails leaves nothing recorded.
C17_RecordIffMounted ==
    (overlay_fs # <<>>) <=> (mounts # <<>>)

\* C18: refresh_packages_list, download_packages, install_packages and
\* fix_resolv_conf leave the record of the active stack and the mounts as they
\* were, whether they return, suppress a SystemExit or raise.
C18_Frame ==
    [][last'.op \in PkgOps \cup {"fix_resolv_conf"} =>
          UNCHANGED <<ManagerFields, mounts>>]_vars

\* a refresh that suppressed a SystemExit, the stack still mounted and recorded
C18_Witness ==
    /\ last.op = "refresh_packages_list" /\ last.raised = "SystemExit"
    /\ last.exc = "none" /\ overlay_fs # <<>> /\ mounts # <<>>
    /\ mounts[Len(mounts)] = overlay_fs[1]

SessionPkgOps == {"LayerMount.install_packages",
                  "PackageCacheMount.refresh_packages_list",
                  "PackageCacheMount.download_packages"}

\* C19: a package operation called through a session in its body, with no
\* mount or unmount made on the manager since the body began, does not fail
\* with RuntimeError: it gets to the chroot.
C19_BodyMounted ==
    (last.op \in SessionPkgOps /\ ~sess.direct) =>
        (last.exc # "RuntimeError" /\ Called(last, "chroot"))

C19_Witness ==
    /\ last.op = "PackageCacheMount.download_packages" /\ ~sess.direct
    /\ last.exc = "none" /\ Called(last, "download_packages") /\ getpid = sess.pid

\* C20: mount_layer for a part that is not in the part list raises before
\* the primitive is called and changes nothing of the manager or the mounts.
C20_UnknownPart ==
    [][(last'.op = "mount_layer" /\ last'.part \notin Range(part_list)) =>
          /\ last'.exc = (IF base_layer_dir = None THEN "RuntimeError" ELSE "ValueError")
          /\ last'.calls = <<[call |-> "mount_layer", fs |-> <<>>]>>
          /\ UNCHANGED <<ManagerFields, mounts, files>>]_vars

\* with a stack active, which stays as it was
C20_Witness ==
    /\ last.op = "mount_layer" /\ last.exc = "ValueError"
    /\ last.part \notin Range(part_list) /\ part_list # <<>>
    /\ overlay_fs # <<>> /\ mounts # <<>>

====
